---- MODULE Spec2Model ----
(***************************************************************************)
(* SMCAnalyzer (smc_analyzer.py): swing-point detection, market-structure  *)
(* classification and signal scoring over a price series.                  *)
(*                                                                         *)
(* Positions are 0-based as in the source (iloc); prices are integers      *)
(* (ordinary, totally ordered numbers: no NaN).  A confidence is held in   *)
(* thousandths of a percent, so 95.0 is 95000 and one decimal digit is a   *)
(* multiple of 100.                                                        *)
(***************************************************************************)
EXTENDS Integers, Sequences, FiniteSets

VARIABLES
    swing_length,      \* self.swing_length
    df,                \* the price series handed to the analyzer
    df0,               \* the series as the caller built it (never written)
    pc,                \* "idle", or the line get_smc_signal's scoring is at
    lastCall,          \* the method the last call was made to
    raised,            \* exception that reached the caller of the last call
    swing_points,      \* list returned by find_swing_highs / find_swing_lows
    market_structure,  \* structure returned / local of get_smc_signal
    buy_score,         \* local of get_smc_signal
    sell_score,        \* local of get_smc_signal
    signal             \* value returned by get_smc_signal

vars == <<swing_length, df, df0, pc, lastCall, raised, swing_points,
          market_structure, buy_score, sell_score, signal>>

(***************************************************************************)
(* Bound of the input series: the most bars a series has.                  *)
(***************************************************************************)
MaxLen == 23

DEFAULT_SWING_LENGTH == 5

(***************************************************************************)
(* Input series.  A series is flat (every bar the base bar) except for a   *)
(* few deviating bars: a raised High, a lowered Low, or both.  The flat    *)
(* runs before, between and after the deviating bars are one bar shorter   *)
(* than the window or exactly the window, so that two deviating bars lie   *)
(* just inside or just outside each other's window and the first and last  *)
(* lie just outside or just inside the eligible range.                     *)
(***************************************************************************)
BaseBar == [High |-> 10, Low |-> 5]

HighPrices == {10, 11, 12}
LowPrices == {5, 4, 3}

DevBars == {[High |-> h, Low |-> l] : h \in HighPrices, l \in LowPrices} \ {BaseBar}

Runs == {DEFAULT_SWING_LENGTH - 1, DEFAULT_SWING_LENGTH}

MaxDevs == (MaxLen - (DEFAULT_SWING_LENGTH - 1)) \div DEFAULT_SWING_LENGTH

Flat(n) == [i \in 1..n |-> BaseBar]

RECURSIVE Build(_, _, _)
Build(runs, devs, k) ==
    IF k > Len(devs)
    THEN Flat(runs[k])
    ELSE Flat(runs[k]) \o <<devs[k]>> \o Build(runs, devs, k + 1)

\* the series with k deviating bars
SeriesWith(k) ==
    {Build(r, d, 1) : r \in [1..(k + 1) -> Runs], d \in [1..k -> DevBars]}

ColumnSets == SUBSET {"High", "Low"}

Frame(s, cols) ==
    [rows    |-> Len(s),
     columns |-> cols,
     High    |-> IF "High" \in cols THEN [i \in 1..Len(s) |-> s[i].High]
                                    ELSE <<>>,
     Low     |-> IF "Low" \in cols THEN [i \in 1..Len(s) |-> s[i].Low]
                                   ELSE <<>>,
     index   |-> [i \in 1..Len(s) |-> i - 1]]

(***************************************************************************)
(* pandas access                                                           *)
(***************************************************************************)
iloc(column, i) == column[i + 1]

Returned(v) == [exc |-> "", value |-> v]
Raise(e) == [exc |-> e, value |-> <<>>]

(***************************************************************************)
(* find_swing_highs / find_swing_lows                                      *)
(***************************************************************************)
\* mutant: a tied High no longer disqualifies (> for >=)
RECURSIVE is_swing_high_ties(_, _, _, _)
is_swing_high_ties(d, W, i, j) ==
    IF j >= i + W + 1 THEN TRUE
    ELSE IF j # i /\ iloc(d.High, j) > iloc(d.High, i) THEN FALSE
    ELSE is_swing_high_ties(d, W, i, j + 1)

RECURSIVE is_swing_high(_, _, _, _)
is_swing_high(d, W, i, j) ==
    IF j >= i + W + 1 THEN TRUE
    ELSE IF j # i /\ iloc(d.High, j) >= iloc(d.High, i) THEN FALSE
    ELSE is_swing_high(d, W, i, j + 1)

RECURSIVE swing_highs_from(_, _, _)
swing_highs_from(d, W, i) ==
    IF i >= d.rows - W THEN <<>>
    ELSE (IF is_swing_high(d, W, i, i - W)
          THEN <<[index |-> i, price |-> iloc(d.High, i),
                  time |-> iloc(d.index, i)]>>
          ELSE <<>>) \o swing_highs_from(d, W, i + 1)

find_swing_highs(d, W) ==
    IF W < d.rows - W /\ "High" \notin d.columns
    THEN Raise("KeyError")
    ELSE Returned(swing_highs_from(d, W, W))

\* mutant: the window stops one bar short on the right (i + W for i + W + 1)
RECURSIVE is_swing_low_short(_, _, _, _)
is_swing_low_short(d, W, i, j) ==
    IF j >= i + W THEN TRUE
    ELSE IF j # i /\ iloc(d.Low, j) <= iloc(d.Low, i) THEN FALSE
    ELSE is_swing_low_short(d, W, i, j + 1)

RECURSIVE is_swing_low(_, _, _, _)
is_swing_low(d, W, i, j) ==
    IF j >= i + W + 1 THEN TRUE
    ELSE IF j # i /\ iloc(d.Low, j) <= iloc(d.Low, i) THEN FALSE
    ELSE is_swing_low(d, W, i, j + 1)

RECURSIVE swing_lows_from(_, _, _)
swing_lows_from(d, W, i) ==
    IF i >= d.rows - W THEN <<>>
    ELSE (IF is_swing_low(d, W, i, i - W)
          THEN <<[index |-> i, price |-> iloc(d.Low, i),
                  time |-> iloc(d.index, i)]>>
          ELSE <<>>) \o swing_lows_from(d, W, i + 1)

find_swing_lows(d, W) ==
    IF W < d.rows - W /\ "Low" \notin d.columns
    THEN Raise("KeyError")
    ELSE Returned(swing_lows_from(d, W, W))

(***************************************************************************)
(* identify_market_structure                                               *)
(***************************************************************************)
Structure(t, b, c) == [trend |-> t, bos_detected |-> b, choch_detected |-> c]

\* mutant: the two oldest swing points ([:2] for [-2:])
first_two(l) == SubSeq(l, 1, 2)

last_two(l) == SubSeq(l, Len(l) - 1, Len(l))

\* mutant: the swing highs are not consulted
classify_lows_only(swing_highs, swing_lows) ==
    IF Len(swing_lows) >= 2
    THEN LET recent_lows == last_two(swing_lows)
         IN  IF recent_lows[2].price > recent_lows[1].price
             THEN Structure("BULLISH", TRUE, FALSE)
             ELSE IF recent_lows[2].price < recent_lows[1].price
             THEN Structure("BEARISH", TRUE, FALSE)
             ELSE Structure("NEUTRAL", FALSE, FALSE)
    ELSE Structure("NEUTRAL", FALSE, FALSE)

\* mutant: the bearish branch does not set bos_detected
classify_bearish_without_bos(swing_highs, swing_lows) ==
    IF Len(swing_highs) >= 2 /\ Len(swing_lows) >= 2
    THEN LET recent_highs == last_two(swing_highs)
             recent_lows == last_two(swing_lows)
         IN  IF recent_highs[2].price > recent_highs[1].price
                /\ recent_lows[2].price > recent_lows[1].price
             THEN Structure("BULLISH", TRUE, FALSE)
             ELSE IF recent_highs[2].price < recent_highs[1].price
                     /\ recent_lows[2].price < recent_lows[1].price
             THEN Structure("BEARISH", FALSE, FALSE)
             ELSE Structure("NEUTRAL", FALSE, FALSE)
    ELSE Structure("NEUTRAL", FALSE, FALSE)

classify(swing_highs, swing_lows) ==
    IF Len(swing_highs) >= 2 /\ Len(swing_lows) >= 2
    THEN LET recent_highs == last_two(swing_highs)
             recent_lows == last_two(swing_lows)
         IN  IF recent_highs[2].price > recent_highs[1].price
                /\ recent_lows[2].price > recent_lows[1].price
             THEN Structure("BULLISH", TRUE, FALSE)
             ELSE IF recent_highs[2].price < recent_highs[1].price
                     /\ recent_lows[2].price < recent_lows[1].price
             THEN Structure("BEARISH", TRUE, FALSE)
             ELSE Structure("NEUTRAL", FALSE, FALSE)
    ELSE Structure("NEUTRAL", FALSE, FALSE)

\* mutant: the handler lets the exception through
structure_on_error_reraise(e) == Raise(e)

\* lines 44-46: any exception is logged and the safe default returned
structure_on_error(e) == Returned(Structure("NEUTRAL", FALSE, FALSE))

identify_market_structure(d, W) ==
    LET swing_highs == find_swing_highs(d, W)
        swing_lows == find_swing_lows(d, W)
    IN  IF swing_highs.exc # "" THEN structure_on_error(swing_highs.exc)
        ELSE IF swing_lows.exc # "" THEN structure_on_error(swing_lows.exc)
        ELSE Returned(classify(swing_highs.value, swing_lows.value))

(***************************************************************************)
(* get_smc_signal                                                          *)
(***************************************************************************)
\* Python's None as a returned signal, and an empty (falsy) structure
None == [signal_type |-> "None", confidence |-> 0]
EmptyStructure == Structure("", FALSE, FALSE)

falsy(ms) == ms = EmptyStructure

Scores(b, s) == [buy_score |-> b, sell_score |-> s]

\* mutant: the trend bias goes to the opposite score
trend_bias_swapped(ms, sc) ==
    IF ms.trend = "BULLISH" THEN Scores(sc.buy_score, sc.sell_score + 3)
    ELSE IF ms.trend = "BEARISH" THEN Scores(sc.buy_score + 3, sc.sell_score)
    ELSE sc

trend_bias(ms, sc) ==
    IF ms.trend = "BULLISH" THEN Scores(sc.buy_score + 3, sc.sell_score)
    ELSE IF ms.trend = "BEARISH" THEN Scores(sc.buy_score, sc.sell_score + 3)
    ELSE sc

bos_bonus(ms, sc) ==
    IF ms.bos_detected
    THEN IF ms.trend = "BULLISH" THEN Scores(sc.buy_score + 4, sc.sell_score)
         ELSE Scores(sc.buy_score, sc.sell_score + 4)
    ELSE sc

\* (score / total_score) * 100, in thousandths
percent(score, total) == (score * 100000) \div total

\* mutant: no clamp at 95
min95_unclamped(x) == x

min95(x) == IF x < 95000 THEN x ELSE 95000

\* round(x, 1): to the nearest multiple of 0.1, a half to the even one
round1(x) ==
    LET q == x \div 100
        r == x % 100
    IN  IF r > 50 \/ (r = 50 /\ q % 2 = 1) THEN (q + 1) * 100 ELSE q * 100

confidence_of(score, total) == round1(min95(percent(score, total)))

determine_signal(sc) ==
    LET total_score == sc.buy_score + sc.sell_score
    IN  IF total_score = 0 THEN None
        ELSE IF sc.buy_score > sc.sell_score /\ sc.buy_score >= 3
        THEN [signal_type |-> "BUY",
              confidence |-> confidence_of(sc.buy_score, total_score)]
        ELSE IF sc.sell_score > sc.buy_score /\ sc.sell_score >= 3
        THEN [signal_type |-> "SELL",
              confidence |-> confidence_of(sc.sell_score, total_score)]
        ELSE None

score_structure(ms) ==
    IF falsy(ms)
    THEN [scores |-> Scores(0, 0), signal |-> None]
    ELSE LET sc == bos_bonus(ms, trend_bias(ms, Scores(0, 0)))
         IN  [scores |-> sc, signal |-> determine_signal(sc)]

get_smc_signal(d, W) ==
    LET ms == identify_market_structure(d, W)
    IN  IF ms.exc # ""
        THEN [structure |-> EmptyStructure, scores |-> Scores(0, 0),
              signal |-> None]
        ELSE LET r == score_structure(ms.value)
             IN  [structure |-> ms.value, scores |-> r.scores,
                  signal |-> r.signal]

(***************************************************************************)
(* The analyzer called on a series: one action per method.                 *)
(***************************************************************************)
Init ==
    /\ swing_length = DEFAULT_SWING_LENGTH
    /\ \E cols \in ColumnSets :
          \/ \E n \in 0..MaxLen : df = Frame(Flat(n), cols)
          \/ \E k \in 1..MaxDevs : \E s \in SeriesWith(k) :
                 /\ Len(s) <= MaxLen
                 /\ df = Frame(s, cols)
    /\ df0 = df
    /\ pc = "idle"
    /\ lastCall = "none"
    /\ raised = ""
    /\ swing_points = <<>>
    /\ market_structure = EmptyStructure
    /\ buy_score = 0
    /\ sell_score = 0
    /\ signal = None

\* mutant: find_swing_highs narrows the window to fit a short series
CallFindSwingHighs_fits_window ==
    /\ pc = "idle"
    /\ swing_length' = IF df.rows >= 2 * swing_length + 1 THEN swing_length
                       ELSE IF df.rows >= 3 THEN (df.rows - 1) \div 2 ELSE 1
    /\ \E r \in {find_swing_highs(df, swing_length')} :
           /\ raised' = r.exc
           /\ swing_points' = r.value
    /\ lastCall' = "find_swing_highs"
    /\ market_structure' = EmptyStructure
    /\ buy_score' = 0
    /\ sell_score' = 0
    /\ signal' = None
    /\ UNCHANGED <<df, df0, pc>>

CallFindSwingHighs ==
    /\ pc = "idle"
    /\ \E r \in {find_swing_highs(df, swing_length)} :
           /\ raised' = r.exc
           /\ swing_points' = r.value
    /\ lastCall' = "find_swing_highs"
    /\ market_structure' = EmptyStructure
    /\ buy_score' = 0
    /\ sell_score' = 0
    /\ signal' = None
    /\ UNCHANGED <<swing_length, df, df0, pc>>

CallFindSwingLows ==
    /\ pc = "idle"
    /\ \E r \in {find_swing_lows(df, swing_length)} :
           /\ raised' = r.exc
           /\ swing_points' = r.value
    /\ lastCall' = "find_swing_lows"
    /\ market_structure' = EmptyStructure
    /\ buy_score' = 0
    /\ sell_score' = 0
    /\ signal' = None
    /\ UNCHANGED <<swing_length, df, df0, pc>>

CallIdentifyMarketStructure ==
    /\ pc = "idle"
    /\ \E r \in {identify_market_structure(df, swing_length)} :
           /\ raised' = r.exc
           /\ market_structure' = r.value
    /\ lastCall' = "identify_market_structure"
    /\ swing_points' = <<>>
    /\ buy_score' = 0
    /\ sell_score' = 0
    /\ signal' = None
    /\ UNCHANGED <<swing_length, df, df0, pc>>

CallGetSmcSignal ==
    /\ pc = "idle"
    /\ \E r \in {get_smc_signal(df, swing_length)} :
           /\ market_structure' = r.structure
           /\ buy_score' = r.scores.buy_score
           /\ sell_score' = r.scores.sell_score
           /\ signal' = r.signal
    /\ raised' = ""
    /\ lastCall' = "get_smc_signal"
    /\ swing_points' = <<>>
    /\ UNCHANGED <<swing_length, df, df0, pc>>

Next ==
    \/ CallFindSwingHighs
    \/ CallFindSwingLows
    \/ CallIdentifyMarketStructure
    \/ CallGetSmcSignal

Spec == Init /\ [][Next]_vars

(***************************************************************************)
(* The scoring of get_smc_signal (lines 95-132) taken line by line, on any *)
(* structure the classifier could hand it: every trend with every value of *)
(* bos_detected and choch_detected, and the empty structure.  The locals   *)
(* and the returned signal keep their last value until they are assigned.  *)
(***************************************************************************)
Trends == {"BULLISH", "BEARISH", "NEUTRAL"}

ScoredStructures ==
    {Structure(t, b, c) : t \in Trends, b \in BOOLEAN, c \in BOOLEAN}
        \cup {EmptyStructure}

InitScore ==
    /\ swing_length = DEFAULT_SWING_LENGTH
    /\ df = Frame(<<>>, {"High", "Low"})
    /\ df0 = df
    /\ pc = "line95"
    /\ lastCall = "get_smc_signal"
    /\ raised = ""
    /\ swing_points = <<>>
    /\ market_structure \in ScoredStructures
    /\ buy_score = 0
    /\ sell_score = 0
    /\ signal = None

ScoreEnter ==
    /\ pc = "line95"
    /\ IF falsy(market_structure)
       THEN /\ signal' = None
            /\ pc' = "return"
            /\ UNCHANGED <<buy_score, sell_score>>
       ELSE /\ buy_score' = 0
            /\ sell_score' = 0
            /\ pc' = "line102"
            /\ UNCHANGED signal
    /\ UNCHANGED <<swing_length, df, df0, lastCall, raised, swing_points,
                   market_structure>>

ScoreTrend ==
    /\ pc = "line102"
    /\ \E sc \in {trend_bias(market_structure, Scores(buy_score, sell_score))} :
           /\ buy_score' = sc.buy_score
           /\ sell_score' = sc.sell_score
    /\ pc' = "line108"
    /\ UNCHANGED <<swing_length, df, df0, lastCall, raised, swing_points,
                   market_structure, signal>>

ScoreBos ==
    /\ pc = "line108"
    /\ \E sc \in {bos_bonus(market_structure, Scores(buy_score, sell_score))} :
           /\ buy_score' = sc.buy_score
           /\ sell_score' = sc.sell_score
    /\ pc' = "line115"
    /\ UNCHANGED <<swing_length, df, df0, lastCall, raised, swing_points,
                   market_structure, signal>>

ScoreDetermine ==
    /\ pc = "line115"
    /\ signal' = determine_signal(Scores(buy_score, sell_score))
    /\ pc' = "return"
    /\ UNCHANGED <<swing_length, df, df0, lastCall, raised, swing_points,
                   market_structure, buy_score, sell_score>>

ScoreAnother ==
    /\ pc = "return"
    /\ market_structure' \in ScoredStructures
    /\ pc' = "line95"
    /\ UNCHANGED <<swing_length, df, df0, lastCall, raised, swing_points,
                   buy_score, sell_score, signal>>

NextScore ==
    \/ ScoreEnter
    \/ ScoreTrend
    \/ ScoreBos
    \/ ScoreDetermine
    \/ ScoreAnother

SpecScore == InitScore /\ [][NextScore]_vars

(***************************************************************************)
(* What the claims speak of, stated on the series itself.                  *)
(***************************************************************************)
Window(i, W) == ((i - W)..(i + W)) \ {i}

Eligible(d, W) == W..(d.rows - 1 - W)

StrictHighs(d, W) ==
    {i \in Eligible(d, W) : \A j \in Window(i, W) : d.High[i + 1] > d.High[j + 1]}

StrictLows(d, W) ==
    {i \in Eligible(d, W) : \A j \in Window(i, W) : d.Low[i + 1] < d.Low[j + 1]}

TiedHighs(d, W) ==
    {i \in Eligible(d, W) :
        /\ \A j \in Window(i, W) : d.High[i + 1] >= d.High[j + 1]
        /\ \E j \in Window(i, W) : d.High[i + 1] = d.High[j + 1]}

TiedLows(d, W) ==
    {i \in Eligible(d, W) :
        /\ \A j \in Window(i, W) : d.Low[i + 1] <= d.Low[j + 1]
        /\ \E j \in Window(i, W) : d.Low[i + 1] = d.Low[j + 1]}

WellFormed(d) == d.columns = {"High", "Low"}

Positions(l) == {l[k].index : k \in 1..Len(l)}

Newest(S) == CHOOSE x \in S : \A y \in S : y <= x

NumHighs(d, W) ==
    IF "High" \in d.columns THEN Cardinality(StrictHighs(d, W)) ELSE 0

NumLows(d, W) ==
    IF "Low" \in d.columns THEN Cardinality(StrictLows(d, W)) ELSE 0

\* swing detection inside identify_market_structure raises
DetectionFails(d, W) == d.rows >= 2 * W + 1 /\ ~WellFormed(d)

SafeDefault == [trend |-> "NEUTRAL", bos_detected |-> FALSE,
                choch_detected |-> FALSE]

\* C1: find_swing_highs returns exactly the positions W <= i <= n-1-W whose
\* High is strictly above every other High of [i-W, i+W], find_swing_lows
\* exactly those whose Low is strictly below every other Low of the window;
\* each once, none that is tied, and none at all when n < 2*W + 1.
C1_ExactlyStrictExtrema ==
    /\ (lastCall = "find_swing_highs" /\ "High" \in df.columns) =>
          /\ raised = ""
          /\ Positions(swing_points) = StrictHighs(df, DEFAULT_SWING_LENGTH)
          /\ Len(swing_points) = Cardinality(Positions(swing_points))
          /\ Positions(swing_points) \cap TiedHighs(df, DEFAULT_SWING_LENGTH) = {}
          /\ \A k \in 1..Len(swing_points) :
                swing_points[k].price = df.High[swing_points[k].index + 1]
    /\ (lastCall = "find_swing_lows" /\ "Low" \in df.columns) =>
          /\ raised = ""
          /\ Positions(swing_points) = StrictLows(df, DEFAULT_SWING_LENGTH)
          /\ Len(swing_points) = Cardinality(Positions(swing_points))
          /\ Positions(swing_points) \cap TiedLows(df, DEFAULT_SWING_LENGTH) = {}
          /\ \A k \in 1..Len(swing_points) :
                swing_points[k].price = df.Low[swing_points[k].index + 1]
    /\ (lastCall \in {"find_swing_highs", "find_swing_lows"}
        /\ df.rows < 2 * DEFAULT_SWING_LENGTH + 1) =>
          (raised = "" /\ swing_points = <<>>)

\* a call that returned a swing high and passed over a tied maximum
C1_Witness ==
    /\ lastCall = "find_swing_highs"
    /\ WellFormed(df)
    /\ Len(swing_points) >= 1
    /\ TiedHighs(df, DEFAULT_SWING_LENGTH) # {}
    /\ \E i \in TiedHighs(df, DEFAULT_SWING_LENGTH) : df.High[i + 1] > 10

\* C3: with at least 2 swing highs and 2 swing lows the trend is decided by
\* the two newest swing highs H0, H1 and the two newest swing lows L0, L1
\* alone: BULLISH iff both rise, BEARISH iff both fall, NEUTRAL otherwise.
C3_TwoNewestDecide ==
    (/\ lastCall = "identify_market_structure"
     /\ WellFormed(df)
     /\ NumHighs(df, DEFAULT_SWING_LENGTH) >= 2
     /\ NumLows(df, DEFAULT_SWING_LENGTH) >= 2) =>
        LET hs == StrictHighs(df, DEFAULT_SWING_LENGTH)
            ls == StrictLows(df, DEFAULT_SWING_LENGTH)
            H1 == df.High[Newest(hs) + 1]
            H0 == df.High[Newest(hs \ {Newest(hs)}) + 1]
            L1 == df.Low[Newest(ls) + 1]
            L0 == df.Low[Newest(ls \ {Newest(ls)}) + 1]
        IN  /\ market_structure.trend = "BULLISH" <=> (H1 > H0 /\ L1 > L0)
            /\ market_structure.trend = "BEARISH" <=> (H1 < H0 /\ L1 < L0)
            /\ market_structure.trend = "NEUTRAL" <=>
                   ~(H1 > H0 /\ L1 > L0) /\ ~(H1 < H0 /\ L1 < L0)

\* three swing highs, the oldest pair falling, the newest pair rising
C3_Witness ==
    /\ lastCall = "identify_market_structure"
    /\ WellFormed(df)
    /\ NumHighs(df, DEFAULT_SWING_LENGTH) >= 3
    /\ NumLows(df, DEFAULT_SWING_LENGTH) >= 2
    /\ market_structure.trend = "BULLISH"
    /\ LET hs == StrictHighs(df, DEFAULT_SWING_LENGTH)
           h1 == Newest(hs)
           h0 == Newest(hs \ {h1})
           old == Newest(hs \ {h1, h0})
       IN  df.High[old + 1] > df.High[h0 + 1]

\* C4: with fewer than 2 swing highs or fewer than 2 swing lows the
\* structure is NEUTRAL without a break of structure.
C4_TooFewSwingsNeutral ==
    (/\ lastCall = "identify_market_structure"
     /\ \/ NumHighs(df, DEFAULT_SWING_LENGTH) < 2
        \/ NumLows(df, DEFAULT_SWING_LENGTH) < 2) =>
        /\ market_structure.trend = "NEUTRAL"
        /\ market_structure.bos_detected = FALSE

\* no swing high at all while the two newest swing lows rise
C4_Witness ==
    /\ lastCall = "identify_market_structure"
    /\ WellFormed(df)
    /\ NumHighs(df, DEFAULT_SWING_LENGTH) < 2
    /\ NumLows(df, DEFAULT_SWING_LENGTH) >= 2
    /\ LET ls == StrictLows(df, DEFAULT_SWING_LENGTH)
       IN  df.Low[Newest(ls) + 1] > df.Low[Newest(ls \ {Newest(ls)}) + 1]
    /\ market_structure.trend = "NEUTRAL"

\* C5: every structure identify_market_structure returns has bos_detected
\* exactly when the trend is BULLISH or BEARISH, and choch_detected false.
C5_BosIffDirectional ==
    lastCall = "identify_market_structure" =>
        /\ market_structure.bos_detected
               <=> market_structure.trend \in {"BULLISH", "BEARISH"}
        /\ market_structure.choch_detected = FALSE

C5_Witness ==
    /\ lastCall = "identify_market_structure"
    /\ market_structure.trend = "BEARISH"
    /\ market_structure.bos_detected

\* C6: when swing detection raises inside identify_market_structure, the
\* structure returned is {NEUTRAL, false, false}, get_smc_signal returns no
\* signal, and no exception reaches the caller of either.
C6_FailureIsSafe ==
    /\ (lastCall = "identify_market_structure"
        /\ DetectionFails(df, DEFAULT_SWING_LENGTH)) =>
           (raised = "" /\ market_structure = SafeDefault)
    /\ (lastCall = "get_smc_signal"
        /\ DetectionFails(df, DEFAULT_SWING_LENGTH)) =>
           (raised = "" /\ signal = None)

\* a series without its Low column whose swing highs rise
C6_Witness ==
    /\ lastCall = "get_smc_signal"
    /\ DetectionFails(df, DEFAULT_SWING_LENGTH)
    /\ NumHighs(df, DEFAULT_SWING_LENGTH) >= 2
    /\ signal = None

\* C7: get_smc_signal returns BUY exactly when identify_market_structure
\* returns BULLISH on the same series, SELL exactly when BEARISH, nothing
\* exactly when NEUTRAL (so with fewer than 2 swing highs or lows); a
\* signal comes from scores (7,0) or (0,7) and has confidence 95.0.
C7_SignalFollowsTrend ==
    lastCall = "get_smc_signal" =>
        LET t == identify_market_structure(df, swing_length).value.trend
        IN  /\ signal.signal_type = "BUY" <=> t = "BULLISH"
            /\ signal.signal_type = "SELL" <=> t = "BEARISH"
            /\ signal = None <=> t = "NEUTRAL"
            /\ (NumHighs(df, DEFAULT_SWING_LENGTH) < 2
                \/ NumLows(df, DEFAULT_SWING_LENGTH) < 2) => signal = None
            /\ signal # None =>
                  /\ <<buy_score, sell_score>> \in {<<7, 0>>, <<0, 7>>}
                  /\ signal.confidence = 95000

C7_Witness ==
    /\ lastCall = "get_smc_signal"
    /\ signal.signal_type = "BUY"
    /\ buy_score = 7

\* C9: after any calls swing_length is still 5 and the series is as the
\* caller built it, and what a call returns is what that call returns on
\* the caller's series with window 5, whatever was called before.
ResultOf(call, d) ==
    IF call = "find_swing_highs"
    THEN LET r == find_swing_highs(d, DEFAULT_SWING_LENGTH)
         IN  raised = r.exc /\ swing_points = r.value
    ELSE IF call = "find_swing_lows"
    THEN LET r == find_swing_lows(d, DEFAULT_SWING_LENGTH)
         IN  raised = r.exc /\ swing_points = r.value
    ELSE IF call = "identify_market_structure"
    THEN market_structure = identify_market_structure(d, DEFAULT_SWING_LENGTH).value
    ELSE IF call = "get_smc_signal"
    THEN signal = get_smc_signal(d, DEFAULT_SWING_LENGTH).signal
    ELSE TRUE

C9_CallsLeaveNoTrace ==
    /\ swing_length = 5
    /\ df = df0
    /\ ResultOf(lastCall, df0)

C9_Witness ==
    /\ lastCall = "find_swing_lows"
    /\ Len(swing_points) >= 2
    /\ swing_length = 5

\* C10: the positions of a returned list ascend, each at least
\* swing_length + 1 above the one before it.
C10_SwingsAWindowApart ==
    lastCall \in {"find_swing_highs", "find_swing_lows"} =>
        \A k \in 1..(Len(swing_points) - 1) :
            swing_points[k + 1].index >= swing_points[k].index + swing_length + 1

\* two swing lows exactly swing_length + 1 apart
C10_Witness ==
    /\ lastCall = "find_swing_lows"
    /\ \E k \in 1..(Len(swing_points) - 1) :
          swing_points[k + 1].index = swing_points[k].index + swing_length + 1

C8_ConfidenceBounded ==
    (pc = "return" /\ signal # None) =>
        /\ 0 <= signal.confidence
        /\ signal.confidence <= 95000
        /\ signal.confidence % 100 = 0

\* a signal from a trend without a break of structure
C8_Witness ==
    /\ pc = "return"
    /\ signal # None
    /\ market_structure.trend = "BULLISH"
    /\ ~market_structure.bos_detected
    /\ buy_score = 3

====
